---- MODULE Spec2Model ----
(***************************************************************************)
(* wldash: construction of the runtime widget tree from the declarative   *)
(* widget specification (src/config.rs) and the UPower battery gauge leaf  *)
(* (src/widgets/battery.rs).                                               *)
(*                                                                         *)
(* Two specifications share the definitions of this module:                *)
(*   Spec         Widget::construct applied to a widget specification,     *)
(*                with every gauge probe's outcome an input;               *)
(*   SpecBattery  one battery leaf: UpowerBattery::new, then the render    *)
(*                loop calling wait() while the device changes.            *)
(***************************************************************************)
EXTENDS Integers, Sequences, FiniteSets, TLC

VARIABLES
    \* ---- construction (src/config.rs)
    spec,       \* the Widget specification handed to construct()
    probe,      \* what each gauge leaf's probe meets, by position in spec
    cpc,        \* position of the construction thread.  "spec": nothing
                \* called yet, "built": construct() returned; for the battery
                \* leaf "probing": inside from_device, "made": it returned
                \* the leaf, "sent": the leaf was handed on, "failed"
    built,      \* construct()'s return value, an Option
    probeLog,   \* the positions of the gauge leaves probed, in probing order
    \* ---- battery leaf (src/widgets/battery.rs)
    pc,         \* position of the render thread with respect to the leaf
                \* ("new": it has no leaf yet, "failed": it never gets one)
    capacity,   \* UpowerBattery.capacity (percent)
    state,      \* UpowerBattery.state
    dirty,      \* the shared Arc<Mutex<bool>>
    cmds,       \* Cmd values sent on the channel and not yet received
    rxAlive,    \* the channel's Receiver still exists
    ctx,        \* WaitContext.fds of the current render-loop iteration
    pending,    \* messages queued on the bus connection, not yet iterated
    dev,        \* the device's current Percentage and State
    rdCap,      \* wait(): the local `capacity` of the running iteration
    trace,      \* from_device: the bus operations performed, in order
    hist,       \* bookkeeping of the running wait() call, for the properties
    ret         \* the last call on the leaf that returned: an accessor and
                \* its value, or from_device and the bus it met

cvars == <<spec, probe, cpc, built, probeLog>>
bvars == <<pc, capacity, state, dirty, cmds, rxAlive, ctx, pending, dev, rdCap,
           trace, hist, ret>>
vars == <<cvars, bvars>>

---------------------------------------------------------------------------
(* Bounds of the model.                                                    *)

\* Largest number of nodes of an enumerated widget specification.
MaxNodes == 3
\* Largest number of bus messages queued on the connection at once.
MaxPending == 2
\* Largest number of descriptors other leaves add to one WaitContext.
MaxOther == 1

---------------------------------------------------------------------------
(* Option<T> and Result<T, E>.                                             *)

None == [some |-> FALSE]
Some(x) == [some |-> TRUE, w |-> x]

Ok(x) == [ok |-> TRUE, v |-> x]
Err(e) == [ok |-> FALSE, e |-> e]

---------------------------------------------------------------------------
(* The bus as UpowerBattery::from_device meets it.  A Reading is what one  *)
(* get_upower_property(..) followed by get1() gives:                       *)
(*   res = "err"   send_with_reply_and_block failed (Err)                  *)
(*   res = "none"  a reply came, get1() found no value of the asked type   *)
(*   res = "ok"    the value v                                             *)

Reading(res, v) == [res |-> res, v |-> v]

\* Percentage values a device reports (f64 percent, whole numbers here).
PctValues == {-1, 5, 10, 11, 50, 150}
\* State codes a device reports (u32); 0 and 7 stand for "every other code".
StateCodes == 0 .. 7
\* Device Type codes: 2 is a battery, 1 is line power.
TypeCodes == {1, 2}

UpowerBatteryState ==
    {"Charging", "Discharging", "Empty", "Full", "NotCharging", "Unknown"}

\* A table at construction that knows no code 6 (pending discharge).
from_device_state_without_6(code) ==
    CASE code = 1 -> "Charging"
      [] code = 2 -> "Discharging"
      [] code = 3 -> "Empty"
      [] code = 4 -> "Full"
      [] code = 5 -> "NotCharging"
      [] OTHER -> "Unknown"

\* battery.rs:127-135, the match on the State code in from_device.
from_device_state(code) ==
    CASE code = 1 -> "Charging"
      [] code = 2 -> "Discharging"
      [] code = 3 -> "Empty"
      [] code = 4 -> "Full"
      [] code = 5 -> "NotCharging"
      [] code = 6 -> "Discharging"
      [] OTHER -> "Unknown"

\* A table with the codes of Charging and Discharging exchanged.
wait_state_swapped(code) ==
    CASE code = 1 -> "Discharging"
      [] code = 2 -> "Charging"
      [] code = 3 -> "Empty"
      [] code = 4 -> "Full"
      [] code = 5 -> "NotCharging"
      [] code = 6 -> "Discharging"
      [] OTHER -> "Unknown"

\* battery.rs:193-199, the match on the State code in wait.
wait_state(code) ==
    CASE code = 1 -> "Charging"
      [] code = 2 -> "Discharging"
      [] code = 3 -> "Empty"
      [] code = 4 -> "Full"
      [] code = 5 -> "NotCharging"
      [] code = 6 -> "Discharging"
      [] OTHER -> "Unknown"

\* A bus on which every step of from_device succeeds.
BusGood(pct, code) ==
    [con |-> TRUE, add_match |-> TRUE, Type |-> Reading("ok", 2),
     Percentage |-> Reading("ok", pct), State |-> Reading("ok", code),
     watch_fds |-> 1]

\* The file descriptor of the connection's single watch, and of another leaf.
WatchFd == "dbus_fd"
OtherFd == "other_fd"

\* A probe that takes a device of any Type for a battery.
from_device_any_type(dirty_, sender, device, bus) ==
    LET device_path == <<"/org/freedesktop/UPower/devices/battery_", device>>
        t1 == <<"get_private">>
        t2 == t1 \o <<"add_match">>
        t3 == t2 \o <<"Type">>
        t4 == t3 \o <<"Percentage">>
        t5 == t4 \o <<"State">>
        t6 == t5 \o <<"watch_fds">>
    IN  IF ~bus.con
          THEN [res |-> Err("unable to open dbus"), trace |-> t1]
        ELSE IF ~bus.add_match
          THEN [res |-> Err("unable to add match rule to dbus connection"),
                trace |-> t2]
        ELSE IF bus.Type.res = "err"
          THEN [res |-> Err("could not send dbus message"), trace |-> t3]
        ELSE IF bus.Type.res = "none"
          THEN [res |-> Err("no such upower device"), trace |-> t3]
        ELSE IF bus.Percentage.res = "err"
          THEN [res |-> Err("could not send dbus message"), trace |-> t4]
        ELSE IF bus.Percentage.res = "none"
          THEN [res |-> Err("no such upower device"), trace |-> t4]
        ELSE IF bus.State.res = "err"
          THEN [res |-> Err("could not send dbus message"), trace |-> t5]
        ELSE IF bus.State.res = "none"
          THEN [res |-> Err("no such upower device"), trace |-> t5]
        ELSE IF bus.watch_fds # 1
          THEN [res |-> Err("expected 1 watch fd from dbus"), trace |-> t6]
        ELSE [res |-> Ok([device_path |-> device_path,
                          dirty |-> dirty_,
                          sender |-> sender,
                          capacity |-> bus.Percentage.v,
                          state |-> from_device_state(bus.State.v),
                          watch |-> WatchFd]),
              trace |-> t6]

\* battery.rs:71-161.  The result and the bus operations performed.
from_device(dirty_, sender, device, bus) ==
    LET device_path == <<"/org/freedesktop/UPower/devices/battery_", device>>
        t1 == <<"get_private">>
        t2 == t1 \o <<"add_match">>
        t3 == t2 \o <<"Type">>
        t4 == t3 \o <<"Percentage">>
        t5 == t4 \o <<"State">>
        t6 == t5 \o <<"watch_fds">>
    IN  IF ~bus.con
          THEN [res |-> Err("unable to open dbus"), trace |-> t1]
        ELSE IF ~bus.add_match
          THEN [res |-> Err("unable to add match rule to dbus connection"),
                trace |-> t2]
        ELSE IF bus.Type.res = "err"
          THEN [res |-> Err("could not send dbus message"), trace |-> t3]
        ELSE IF bus.Type.res = "none"
          THEN [res |-> Err("no such upower device"), trace |-> t3]
        ELSE IF bus.Type.v # 2
          THEN [res |-> Err("UPower device is not a battery."), trace |-> t3]
        ELSE IF bus.Percentage.res = "err"
          THEN [res |-> Err("could not send dbus message"), trace |-> t4]
        ELSE IF bus.Percentage.res = "none"
          THEN [res |-> Err("no such upower device"), trace |-> t4]
        ELSE IF bus.State.res = "err"
          THEN [res |-> Err("could not send dbus message"), trace |-> t5]
        ELSE IF bus.State.res = "none"
          THEN [res |-> Err("no such upower device"), trace |-> t5]
        ELSE IF bus.watch_fds # 1
          THEN [res |-> Err("expected 1 watch fd from dbus"), trace |-> t6]
        ELSE [res |-> Ok([device_path |-> device_path,
                          dirty |-> dirty_,
                          sender |-> sender,
                          capacity |-> bus.Percentage.v,
                          state |-> from_device_state(bus.State.v),
                          watch |-> WatchFd]),
              trace |-> t6]

\* BarWidget::new(font_size, length, f): makes the shared dirty flag, calls the
\* closure f with it and wraps the leaf f returns; f's error is returned as is.
BarWidget_new(font_size, length, r) ==
    IF r.ok
      THEN Ok([kind |-> "BarWidget", font_size |-> font_size,
               length |-> length, inner |-> r.v])
      ELSE r

\* battery.rs:163-172.
UpowerBattery_new(font_size, length, sender, bus) ==
    BarWidget_new(font_size, length,
                  from_device("dirty", sender, "BAT0", bus).res)

---------------------------------------------------------------------------
(* The widget specification: enum Widget, config.rs:12-64.                 *)

Margin(margins, widget) ==
    [kind |-> "Margin", margins |-> margins, widget |-> widget]
Fixed(width, height, widget) ==
    [kind |-> "Fixed", width |-> width, height |-> height, widget |-> widget]
HorizontalLayout(widgets) == [kind |-> "HorizontalLayout", widgets |-> widgets]
VerticalLayout(widgets) == [kind |-> "VerticalLayout", widgets |-> widgets]
Clock(font_size) == [kind |-> "Clock", font_size |-> font_size]
Date(font_size) == [kind |-> "Date", font_size |-> font_size]
Calendar(font_size, sections) ==
    [kind |-> "Calendar", font_size |-> font_size, sections |-> sections]
Launcher(font_size, length, app_opener, term_opener, url_opener) ==
    [kind |-> "Launcher", font_size |-> font_size, length |-> length,
     app_opener |-> app_opener, term_opener |-> term_opener,
     url_opener |-> url_opener]
Battery(font_size, length) ==
    [kind |-> "Battery", font_size |-> font_size, length |-> length]
Backlight(device, font_size, length) ==
    [kind |-> "Backlight", device |-> device, font_size |-> font_size,
     length |-> length]
PulseAudio(font_size, length) ==
    [kind |-> "PulseAudio", font_size |-> font_size, length |-> length]
AlsaSound(font_size, length) ==
    [kind |-> "AlsaSound", font_size |-> font_size, length |-> length]

WrapperKinds == {"Margin", "Fixed"}
LayoutKinds == {"HorizontalLayout", "VerticalLayout"}
ContainerKinds == WrapperKinds \cup LayoutKinds
StaticKinds == {"Clock", "Date", "Calendar", "Launcher"}
GaugeKinds == {"Battery", "Backlight", "PulseAudio", "AlsaSound"}

---------------------------------------------------------------------------
(* The runtime widgets construct() makes.  Their constructors live in      *)
(* widget.rs and widgets/*.rs; each keeps its arguments.  `node` is the    *)
(* position in the specification of the node the widget was made for: it   *)
(* is bookkeeping for the properties, the program does not store it.       *)

widget_Margin_new(margins, w, node) ==
    [kind |-> "Margin", margins |-> margins, widget |-> w, node |-> node]
widget_Fixed_new(size, w, node) ==
    [kind |-> "Fixed", size |-> size, widget |-> w, node |-> node]
widget_HorizontalLayout_new(ws, node) ==
    [kind |-> "HorizontalLayout", widgets |-> ws, node |-> node]
widget_VerticalLayout_new(ws, node) ==
    [kind |-> "VerticalLayout", widgets |-> ws, node |-> node]
Clock_new(time, font_size, node) ==
    [kind |-> "Clock", time |-> time, font_size |-> font_size, node |-> node]
Date_new(time, font_size, node) ==
    [kind |-> "Date", time |-> time, font_size |-> font_size, node |-> node]
Calendar_new(time, font_size, sections, node) ==
    [kind |-> "Calendar", time |-> time, font_size |-> font_size,
     sections |-> sections, node |-> node]
Launcher_new(font_size, length, tx, app_opener, term_opener, url_opener, node) ==
    [kind |-> "Launcher", font_size |-> font_size, length |-> length,
     tx |-> tx, app_opener |-> app_opener, term_opener |-> term_opener,
     url_opener |-> url_opener, node |-> node]
Gauge_leaf(kind, bar, node) == [kind |-> kind, bar |-> bar, node |-> node]

\* Backlight::new(device, font_size, length): Err when the probe of the
\* control file fails, else the bar widget.
Backlight_new(d, font_size, length, hw) ==
    IF hw.ok
      THEN Ok([kind |-> "BarWidget", font_size |-> font_size,
               length |-> length, inner |-> [device |-> d]])
      ELSE Err("backlight")

\* PulseAudio::new(font_size, length, tx), Alsa::new(font_size, length).
Audio_new(font_size, length, hw) ==
    IF hw.ok
      THEN Ok([kind |-> "BarWidget", font_size |-> font_size,
               length |-> length, inner |-> [mixer |-> "Master"]])
      ELSE Err("audio")

---------------------------------------------------------------------------
(* Widget::construct, config.rs:67-162.                                    *)

\* A wrapper that yields nothing whatever its child yields.
wrap_child_none(child, made) == None

\* A wrapper that hands its child on unwrapped.
wrap_child_skip(child, made) == child

\* config.rs:73-76 and 81-84: match widget.construct(..) { Some(w) => Some(new(w)), None => None }
\* with `made` the widget new(w) gives when w exists.
wrap_child(child, made) == IF child.some THEN Some(made) ELSE None

RECURSIVE take_while_unwrap(_)
\* A collect() that stops at the first child that failed.
take_while_unwrap(opts) ==
    IF opts = <<>> \/ ~Head(opts).some THEN <<>>
    ELSE <<Head(opts).w>> \o take_while_unwrap(Tail(opts))

RECURSIVE filter_unwrap(_)
\* config.rs:89-91 and 97-99: .filter(|x| x.is_some()).map(|x| x.unwrap()).collect()
filter_unwrap(opts) ==
    IF opts = <<>> THEN <<>>
    ELSE (IF Head(opts).some THEN <<Head(opts).w>> ELSE <<>>)
         \o filter_unwrap(Tail(opts))

\* A match that shows a placeholder bar for a gauge whose probe failed.
ok_or_placeholder(r, kind, node) ==
    IF r.ok THEN Some(Gauge_leaf(kind, r.v, node))
    ELSE Some(Gauge_leaf(kind, [unavailable |-> TRUE], node))

\* config.rs:126-129, 141-144, 148-151, 155-158: match r { Ok(w) => Some(w), Err(_) => None }
ok_or_none(r, kind, node) ==
    IF r.ok THEN Some(Gauge_leaf(kind, r.v, node)) ELSE None

\* A Launcher that keeps the configured opener even when it is empty.
url_opener_unchanged(url_opener) == url_opener

\* config.rs:119-123.
url_opener_or_default(url_opener) ==
    IF url_opener = "" THEN "xdg_open " ELSE url_opener

\* config.rs:136-140.
device_or_default(device) ==
    IF device = "" THEN "intel_backlight" ELSE device

RECURSIVE concat_logs(_)
concat_logs(rs) ==
    IF rs = <<>> THEN <<>> ELSE Head(rs).log \o concat_logs(Tail(rs))

RECURSIVE construct(_, _, _, _, _)
RECURSIVE map_construct(_, _, _, _, _, _)
RECURSIVE map_construct_rev(_, _, _, _, _, _)

\* A traversal that constructs the children from the last to the first.
map_construct_rev(widgets, i, time, tx, node, pr) ==
    IF i > Len(widgets) THEN <<>>
    ELSE map_construct_rev(widgets, i + 1, time, tx, node, pr)
         \o <<construct(widgets[i], time, tx, node \o <<i>>, pr)>>

\* config.rs:86-88 and 94-96: widgets.into_iter().map(|x| x.construct(time, tx.clone())),
\* the children from the i-th on, each constructed in turn.
map_construct(widgets, i, time, tx, node, pr) ==
    IF i > Len(widgets) THEN <<>>
    ELSE <<construct(widgets[i], time, tx, node \o <<i>>, pr)>>
         \o map_construct(widgets, i + 1, time, tx, node, pr)

\* The Option construct() returns for the node at position `node`, and the
\* gauge probes it ran, in order.  pr[n] is what the probe at position n meets.
construct(self, time, tx, node, pr) ==
    CASE self.kind = "Margin" ->
           LET r == construct(self.widget, time, tx, node \o <<1>>, pr)
           IN  [opt |-> wrap_child(r.opt,
                          widget_Margin_new(self.margins, r.opt.w, node)),
                log |-> r.log]
      [] self.kind = "Fixed" ->
           LET r == construct(self.widget, time, tx, node \o <<1>>, pr)
           IN  [opt |-> wrap_child(r.opt,
                          widget_Fixed_new(<<self.width, self.height>>,
                                           r.opt.w, node)),
                log |-> r.log]
      [] self.kind = "HorizontalLayout" ->
           LET rs == map_construct(self.widgets, 1, time, tx, node, pr)
           IN  [opt |-> Some(widget_HorizontalLayout_new(
                          filter_unwrap([i \in 1 .. Len(rs) |-> rs[i].opt]),
                          node)),
                log |-> concat_logs(rs)]
      [] self.kind = "VerticalLayout" ->
           LET rs == map_construct(self.widgets, 1, time, tx, node, pr)
           IN  [opt |-> Some(widget_VerticalLayout_new(
                          filter_unwrap([i \in 1 .. Len(rs) |-> rs[i].opt]),
                          node)),
                log |-> concat_logs(rs)]
      [] self.kind = "Clock" ->
           [opt |-> Some(Clock_new(time, self.font_size, node)), log |-> <<>>]
      [] self.kind = "Date" ->
           [opt |-> Some(Date_new(time, self.font_size, node)), log |-> <<>>]
      [] self.kind = "Calendar" ->
           [opt |-> Some(Calendar_new(time, self.font_size, self.sections, node)),
            log |-> <<>>]
      [] self.kind = "Launcher" ->
           [opt |-> Some(Launcher_new(self.font_size, self.length, tx,
                                       self.app_opener, self.term_opener,
                                       url_opener_or_default(self.url_opener),
                                       node)),
            log |-> <<>>]
      [] self.kind = "Battery" ->
           [opt |-> ok_or_none(UpowerBattery_new(self.font_size, self.length,
                                                 tx, pr[node]),
                               "Battery", node),
            log |-> <<node>>]
      [] self.kind = "Backlight" ->
           [opt |-> ok_or_none(Backlight_new(device_or_default(self.device),
                                             self.font_size, self.length,
                                             pr[node]),
                               "Backlight", node),
            log |-> <<node>>]
      [] self.kind = "PulseAudio" ->
           [opt |-> ok_or_none(Audio_new(self.font_size, self.length, pr[node]),
                               "PulseAudio", node),
            log |-> <<node>>]
      [] self.kind = "AlsaSound" ->
           [opt |-> ok_or_none(Audio_new(self.font_size, self.length, pr[node]),
                               "AlsaSound", node),
            log |-> <<node>>]

---------------------------------------------------------------------------
(* The inputs of construct(): widget specifications and probe outcomes.    *)

\* impl Default for Config, config.rs:189-238; `pulse` is the build feature
\* "pulseaudio-widget".
DefaultWidget(pulse) ==
    Margin(<<20, 20, 20, 20>>, VerticalLayout(<<
        HorizontalLayout(<<
            Margin(<<0, 88, 0, 32>>,
                   VerticalLayout(<<Date(64), Clock(256)>>)),
            VerticalLayout(
                <<Margin(<<0, 0, 0, 8>>, Battery(24, 600)),
                  Margin(<<0, 0, 0, 8>>, Backlight("intel_backlight", 24, 600))>>
                \o (IF pulse
                      THEN <<Margin(<<0, 0, 0, 8>>, PulseAudio(24, 600))>>
                      ELSE <<>>))>>),
        Calendar(16, 3),
        Launcher(32, 1200, "", "", "")>>))

Leaves ==
    {Clock(256), Date(64), Calendar(16, 3),
     Launcher(32, 1200, "", "", ""), Launcher(32, 1200, "app ", "term ", "url "),
     Battery(24, 600),
     Backlight("", 24, 600), Backlight("acpi_video0", 24, 600),
     PulseAudio(24, 600), AlsaSound(24, 600)}

RECURSIVE TreesOfSize(_)
RECURSIVE Forests(_)

\* The sequences of specifications with n nodes in all.
Forests(n) ==
    IF n = 0 THEN {<<>>}
    ELSE UNION {{<<t>> \o f : t \in TreesOfSize(k), f \in Forests(n - k)} :
                k \in 1 .. n}

\* The specifications with exactly n nodes.
TreesOfSize(n) ==
    IF n = 0 THEN {}
    ELSE (IF n = 1 THEN Leaves ELSE {})
         \cup {Margin(<<0, 0, 0, 8>>, t) : t \in TreesOfSize(n - 1)}
         \cup {Fixed(640, 480, t) : t \in TreesOfSize(n - 1)}
         \cup {HorizontalLayout(f) : f \in Forests(n - 1)}
         \cup {VerticalLayout(f) : f \in Forests(n - 1)}

\* The specifications construct() is applied to.
Specs ==
    UNION {TreesOfSize(n) : n \in 1 .. MaxNodes}
    \cup {DefaultWidget(TRUE), DefaultWidget(FALSE)}

RECURSIVE NodeAt(_, _)
\* The node of specification t at position `node` (a path of child indices).
NodeAt(t, node) ==
    IF node = <<>> THEN t
    ELSE IF t.kind \in WrapperKinds THEN NodeAt(t.widget, Tail(node))
    ELSE NodeAt(t.widgets[Head(node)], Tail(node))

RECURSIVE Nodes(_, _)
\* The positions of all nodes of t, t itself being at position `node`.
Nodes(t, node) ==
    {node} \cup
    (IF t.kind \in WrapperKinds THEN Nodes(t.widget, node \o <<1>>)
     ELSE IF t.kind \in LayoutKinds
       THEN UNION {Nodes(t.widgets[i], node \o <<i>>) : i \in 1 .. Len(t.widgets)}
     ELSE {})

GaugeNodes(t) == {n \in Nodes(t, <<>>) : NodeAt(t, n).kind \in GaugeKinds}

\* What a battery probe can meet: a healthy bus, or one failing at one step.
ProbeBuses ==
    {BusGood(50, 2),
     [BusGood(50, 2) EXCEPT !.con = FALSE],
     [BusGood(50, 2) EXCEPT !.add_match = FALSE],
     [BusGood(50, 2) EXCEPT !.Type = Reading("ok", 1)],
     [BusGood(50, 2) EXCEPT !.Percentage = Reading("none", 0)],
     [BusGood(50, 2) EXCEPT !.State = Reading("err", 0)],
     [BusGood(50, 2) EXCEPT !.watch_fds = 2]}

\* What a backlight or audio probe can meet.
HwOutcomes == {[ok |-> TRUE], [ok |-> FALSE]}

ProbeOutcomes(kind) == IF kind = "Battery" THEN ProbeBuses ELSE HwOutcomes

RECURSIVE ProbeChoices(_, _)
\* Every assignment of an outcome to the gauge positions `ns` of t.
ProbeChoices(t, ns) ==
    IF ns = {} THEN {[n \in {} |-> 0]}
    ELSE LET n == CHOOSE x \in ns : TRUE
         IN  {f @@ (n :> o) : f \in ProbeChoices(t, ns \ {n}),
                              o \in ProbeOutcomes(NodeAt(t, n).kind)}

\* A bus on which a battery probe has nothing to fail on.
BusHealthy(bus) ==
    /\ bus.con /\ bus.add_match
    /\ bus.Type = Reading("ok", 2)
    /\ bus.Percentage.res = "ok" /\ bus.State.res = "ok"
    /\ bus.watch_fds = 1

\* Whether the probe at gauge position n of t succeeds under pr.
ProbeOk(t, pr, n) ==
    IF NodeAt(t, n).kind = "Battery" THEN BusHealthy(pr[n]) ELSE pr[n].ok

---------------------------------------------------------------------------
(* Specification Spec: construct() on a widget specification.              *)

\* The bookkeeping of a wait() call: the messages found and the commands sent
\* so far, the channel and the WaitContext as they were when wait() was
\* called (cmds0, ctx0), the leaf and the channel as they were at the last
\* boundary between iterations of the loop: when wait() was called, when an
\* iteration began and when one completed (it), the values the last
\* completed iteration read, and the step that failed.
Snapshot(cap, st, d, c) ==
    [capacity |-> cap, state |-> st, dirty |-> d, cmds |-> c]
NoHist ==
    [found |-> 0, sent |-> 0, cmds0 |-> 0, ctx0 |-> <<>>,
     it |-> Snapshot(0, "Unknown", FALSE, 0),
     last |-> [pct |-> 0, code |-> 0],
     fail |-> "none"]
NoRet == [op |-> "none"]

BatteryIdle ==
    /\ pc = "off" /\ capacity = 0 /\ state = "Unknown" /\ dirty = FALSE
    /\ cmds = 0 /\ rxAlive = TRUE /\ ctx = <<>> /\ pending = 0
    /\ dev = [pct |-> 0, state |-> 0] /\ rdCap = 0 /\ trace = <<>>
    /\ hist = NoHist
    /\ ret = NoRet

Init ==
    /\ spec \in Specs
    /\ probe \in ProbeChoices(spec, GaugeNodes(spec))
    /\ cpc = "spec"
    /\ built = None
    /\ probeLog = <<>>
    /\ BatteryIdle

\* config.rs:67-162: the construction thread calls widget.construct(time, tx).
Construct ==
    /\ cpc = "spec"
    /\ LET r == construct(spec, "now", "tx", <<>>, probe)
       IN  /\ built' = r.opt
           /\ probeLog' = r.log
    /\ cpc' = "built"
    /\ UNCHANGED <<spec, probe, bvars>>

Next == Construct

Spec == Init /\ [][Next]_vars

---------------------------------------------------------------------------
(* Properties of construct(), specification Spec.                          *)

\* The children a runtime widget owns, in stored order.
Children(w) ==
    IF w.kind \in WrapperKinds THEN <<w.widget>>
    ELSE IF w.kind \in LayoutKinds THEN w.widgets
    ELSE <<>>

RECURSIVE Index(_)
\* <<position, kind>> of every widget of the runtime tree w.
Index(w) ==
    {<<w.node, w.kind>>}
    \cup UNION {Index(Children(w)[i]) : i \in 1 .. Len(Children(w))}

BuiltIndex == IF built.some THEN Index(built.w) ELSE {}

RECURSIVE Constructs(_, _, _)
\* Whether the node of t at position n is expected to yield a widget: a gauge
\* when its probe succeeds, a Margin or Fixed when its child does, and every
\* layout and static leaf.
Constructs(t, n, pr) ==
    LET k == NodeAt(t, n).kind
    IN  IF k \in GaugeKinds THEN ProbeOk(t, pr, n)
        ELSE IF k \in WrapperKinds THEN Constructs(t, n \o <<1>>, pr)
        ELSE TRUE

\* The child indices of the layout at the root of spec that yield a widget.
RootSurvivors ==
    {i \in 1 .. Len(spec.widgets) : Constructs(spec, <<i>>, probe)}

Last(seq) == seq[Len(seq)]

\* C1 as stated: every container (Margin, Fixed, HorizontalLayout,
\* VerticalLayout) still constructs when a child fails to construct.
C1_EveryContainerConstructs ==
    (cpc = "built" /\ spec.kind \in ContainerKinds) => built.some

\* C1, amended: a HorizontalLayout or VerticalLayout drops the children that
\* fail to construct and still constructs, as an empty layout when no child
\* survives; a Margin or Fixed constructs exactly when its one child does and
\* returns no widget otherwise.
C1_ContainersAndFailedChildren ==
    cpc = "built" =>
      /\ spec.kind \in LayoutKinds =>
           /\ built.some
           /\ built.w.kind = spec.kind
           /\ Len(built.w.widgets) = Cardinality(RootSurvivors)
           /\ {Last(built.w.widgets[j].node) :
                   j \in 1 .. Len(built.w.widgets)} = RootSurvivors
      /\ spec.kind \in WrapperKinds =>
           /\ built.some <=> Constructs(spec, <<1>>, probe)
           /\ built.some => built.w.kind = spec.kind

\* C1 witnesses: a layout none of whose two children constructs is built
\* empty, and a Margin over a failed gauge is not built.
C1_Witness ==
    /\ cpc = "built"
    /\ spec.kind \in LayoutKinds
    /\ Len(spec.widgets) = 2
    /\ RootSurvivors = {}
    /\ built.some /\ built.w.widgets = <<>>

RECURSIVE Nested(_)
\* Every widget of the runtime tree w owns widgets made for children of the
\* node it was made for itself.
Nested(w) ==
    \A i \in 1 .. Len(Children(w)) :
      LET c == Children(w)[i]
      IN  /\ Len(c.node) = Len(w.node) + 1
          /\ SubSeq(c.node, 1, Len(w.node)) = w.node
          /\ Nested(c)

GaugeSurvivors == {n \in GaugeNodes(spec) : ProbeOk(spec, probe, n)}
GaugeFailures == GaugeNodes(spec) \ GaugeSurvivors

\* C2: the constructed tree holds exactly the gauge leaves whose probe
\* succeeded (N - M of them), every static leaf of the specification, each
\* made for a node of its own kind and nested as in the specification.
C2_Pruning ==
    cpc = "built" =>
      /\ {x \in BuiltIndex : x[2] \in GaugeKinds}
           = {<<n, NodeAt(spec, n).kind>> : n \in GaugeSurvivors}
      /\ Cardinality({x \in BuiltIndex : x[2] \in GaugeKinds})
           = Cardinality(GaugeNodes(spec)) - Cardinality(GaugeFailures)
      /\ {x \in BuiltIndex : x[2] \in StaticKinds}
           = {<<n, NodeAt(spec, n).kind>> :
                 n \in {m \in Nodes(spec, <<>>) :
                          NodeAt(spec, m).kind \in StaticKinds}}
      /\ \A x \in BuiltIndex :
           x[1] \in Nodes(spec, <<>>) /\ NodeAt(spec, x[1]).kind = x[2]
      /\ built.some => (built.w.node = <<>> /\ Nested(built.w))
      /\ (~built.some) => \A n \in Nodes(spec, <<>>) :
                            NodeAt(spec, n).kind \notin LayoutKinds

\* C2 witness: of several gauges one fails and one survives, next to static
\* leaves.
C2_Witness ==
    /\ cpc = "built"
    /\ GaugeSurvivors # {} /\ GaugeFailures # {}
    /\ \E x \in BuiltIndex : x[2] \in StaticKinds
    /\ \E x \in BuiltIndex : x[2] \in GaugeKinds

RECURSIVE PathLess(_, _)
\* Document order of positions.
PathLess(a, b) ==
    IF a = <<>> THEN b # <<>>
    ELSE IF b = <<>> THEN FALSE
    ELSE \/ Head(a) < Head(b)
         \/ Head(a) = Head(b) /\ PathLess(Tail(a), Tail(b))

RECURSIVE OrderKept(_)
\* In every layout of the runtime tree w the children stand in the order of
\* the specification's list.
OrderKept(w) ==
    /\ \A i, j \in 1 .. Len(Children(w)) :
         i < j => Last(Children(w)[i].node) < Last(Children(w)[j].node)
    /\ \A i \in 1 .. Len(Children(w)) : OrderKept(Children(w)[i])

\* C3: the gauge leaves are probed in list (document) order, each once, and
\* every layout stores its surviving children in the order of the
\* specification's list, none twice.
C3_OrderPreserved ==
    cpc = "built" =>
      /\ Len(probeLog) = Cardinality(GaugeNodes(spec))
      /\ {probeLog[i] : i \in 1 .. Len(probeLog)} = GaugeNodes(spec)
      /\ \A i, j \in 1 .. Len(probeLog) :
           i < j => PathLess(probeLog[i], probeLog[j])
      /\ built.some => OrderKept(built.w)

\* C3 witness: a layout of three children whose middle child fails keeps the
\* first and the third, in that order.
C3_Witness ==
    /\ cpc = "built" /\ built.some
    /\ \E x \in BuiltIndex :
         /\ x[2] \in LayoutKinds
         /\ Len(NodeAt(spec, x[1]).widgets) = 3
         /\ ~Constructs(spec, x[1] \o <<2>>, probe)
         /\ <<x[1] \o <<1>>, "Margin">> \in BuiltIndex
         /\ <<x[1] \o <<3>>, "Margin">> \in BuiltIndex
    /\ Len(probeLog) = 3

\* C4: a gauge leaf whose probe fails yields no widget: construct() returns
\* None for it, as a value.
C4_ProbeFailureIsNone ==
    cpc = "built" =>
      /\ (spec.kind \in GaugeKinds /\ ~ProbeOk(spec, probe, <<>>))
           => built = None
      /\ \A n \in GaugeFailures : \A k \in GaugeKinds : <<n, k>> \notin BuiltIndex

\* C4 witness: a Battery specification on a bus whose device is not a battery.
C4_Witness ==
    /\ cpc = "built"
    /\ spec.kind = "Battery"
    /\ probe[<<>>].Type = Reading("ok", 1)
    /\ built = None

---------------------------------------------------------------------------
(* The battery leaf: impl BarWidgetImpl for UpowerBattery, battery.rs:175-236 *)

\* Color::new(r, g, b, a), in tenths.
Color_new(r, g, b, a) == <<r, g, b, a>>
White == Color_new(10, 10, 10, 10)
Amber == Color_new(10, 5, 0, 10)
Green == Color_new(5, 10, 5, 10)
Pink == Color_new(10, 5, 5, 10)

\* A low-battery test that counts ten percent as not low.
at_least_low_battery(cap) == cap >= 10

\* battery.rs:219, the test `self.capacity > 10.0`.
above_low_battery(cap) == cap > 10

\* battery.rs:216-232.
color(st, cap) ==
    CASE st \in {"Discharging", "Unknown"} ->
           IF above_low_battery(cap) THEN White ELSE Amber
      [] st \in {"Charging", "Full"} -> Green
      [] st \in {"NotCharging", "Empty"} -> Pink

\* battery.rs:213-215: (self.capacity as f32) / 100.0, as a fraction.
value(cap) == [num |-> cap, den |-> 100]

\* battery.rs:210-212.
name == "battery"

\* A descriptor registered for writability.
PollFd_new_out(fd, flags) == <<fd, "POLLOUT">>

\* battery.rs:208: PollFd::new(fd, PollFlags::POLLIN)
PollFd_new(fd, flags) == <<fd, flags>>

\* What the device reports: every State code, with the discharging codes a
\* Percentage on either side of the low-battery mark, and a Percentage on
\* either side of 0 .. 100 (the f64 is stored as the service sent it).
DevReadings ==
    {[pct |-> -1, state |-> 0], [pct |-> 50, state |-> 1],
     [pct |-> 10, state |-> 2], [pct |-> 50, state |-> 2],
     [pct |-> 11, state |-> 3], [pct |-> 150, state |-> 4],
     [pct |-> 10, state |-> 5], [pct |-> 5, state |-> 6],
     [pct |-> 5, state |-> 7]}

\* What one property read can give while the device reports v.
Readings(v) == {Reading("ok", v), Reading("err", 0), Reading("none", 0)}

\* The buses from_device can meet while the device reports d.
BusEnvs(d) ==
    {[con |-> c, add_match |-> m, Type |-> ty, Percentage |-> p, State |-> st,
      watch_fds |-> n] :
        c \in BOOLEAN, m \in BOOLEAN,
        ty \in {Reading("ok", t) : t \in TypeCodes}
               \cup {Reading("err", 0), Reading("none", 0)},
        p \in Readings(d.pct), st \in Readings(d.state), n \in 0 .. 2}

ConstructionIdle ==
    /\ spec = Battery(24, 600) /\ probe = <<>> /\ cpc = "spec"
    /\ built = None /\ probeLog = <<>>

\* Before UpowerBattery::new: BarWidget::new has made the dirty flag (its
\* first value is set outside battery.rs), the channel is empty and open.
InitBattery ==
    /\ ConstructionIdle
    /\ pc = "new"
    /\ capacity = 0 /\ state = "Unknown"
    /\ dirty \in BOOLEAN
    /\ cmds = 0 /\ rxAlive = TRUE
    /\ ctx = <<>> /\ pending = 0
    /\ dev \in DevReadings
    /\ rdCap = 0 /\ trace = <<>>
    /\ hist = NoHist /\ ret = NoRet

\* A constructor that makes the leaf reachable for the render loop on entry,
\* before the probe has run.
NewCall_publishing ==
    /\ cpc = "spec" /\ pc = "new"
    /\ cpc' = "probing"
    /\ pc' = "loop"
    /\ UNCHANGED <<spec, probe, built, probeLog, capacity, state, dirty, cmds,
                   rxAlive, ctx, pending, dev, rdCap, trace, hist, ret>>

\* battery.rs:163-172: the construction thread calls UpowerBattery::new and is
\* inside from_device, where the connection is a local of that thread.
NewCall ==
    /\ cpc = "spec" /\ pc = "new"
    /\ cpc' = "probing"
    /\ UNCHANGED <<spec, probe, built, probeLog, bvars>>

\* battery.rs:71-161: from_device returns to the construction thread, with
\* the leaf that now owns the connection (152-160) or with the error.  ret
\* keeps the bus the call met.
New ==
    /\ cpc = "probing" /\ pc = "new"
    /\ \E bus \in BusEnvs(dev) :
         LET r == from_device("dirty", "tx", "BAT0", bus)
         IN  /\ trace' = r.trace
             /\ ret' = [op |-> "new", bus |-> bus]
             /\ IF r.res.ok
                  THEN /\ capacity' = r.res.v.capacity
                       /\ state' = r.res.v.state
                       /\ cpc' = "made"
                       /\ pc' = pc
                  ELSE /\ UNCHANGED <<capacity, state>>
                       /\ cpc' = "failed"
                       /\ pc' = "failed"
    /\ UNCHANGED <<spec, probe, built, probeLog, dirty, cmds, rxAlive, ctx,
                   pending, dev, rdCap, hist>>

\* The construction thread gives the finished leaf, connection included, to
\* the render loop and keeps nothing of it.
Handoff ==
    /\ cpc = "made" /\ pc = "new"
    /\ cpc' = "sent"
    /\ pc' = "loop"
    /\ UNCHANGED <<spec, probe, built, probeLog, capacity, state, dirty, cmds,
                   rxAlive, ctx, pending, dev, rdCap, trace, hist, ret>>

Running == pc \in {"loop", "iter", "rdPct", "rdState", "waited"}

\* The power-management service: the device's properties change and a
\* PropertiesChanged signal is queued on the leaf's connection.
DeviceChange ==
    /\ Running
    /\ pending + hist.found < MaxPending
    /\ dev' \in DevReadings
    /\ pending' = pending + 1
    /\ UNCHANGED <<cvars, pc, capacity, state, dirty, cmds, rxAlive, ctx,
                   rdCap, trace, hist, ret>>

\* The receiving end of the command channel is dropped.
RxDrop ==
    /\ Running
    /\ rxAlive
    /\ rxAlive' = FALSE
    /\ UNCHANGED <<cvars, pc, capacity, state, dirty, cmds, ctx, pending, dev,
                   rdCap, trace, hist, ret>>

\* battery.rs:176: the render loop calls wait(ctx) on the leaf.
WaitCall ==
    /\ pc = "loop"
    /\ pc' = "iter"
    /\ hist' = [NoHist EXCEPT !.cmds0 = cmds, !.ctx0 = ctx,
                               !.it = Snapshot(capacity, state, dirty, cmds)]
    /\ ret' = NoRet
    /\ UNCHANGED <<cvars, capacity, state, dirty, cmds, rxAlive, ctx, pending,
                   dev, rdCap, trace>>

\* battery.rs:177-181: watch_handle(..) yields the next queued message.
WaitItem ==
    /\ pc = "iter"
    /\ pending > 0
    /\ pending' = pending - 1
    /\ hist' = [hist EXCEPT !.found = @ + 1,
                             !.it = Snapshot(capacity, state, dirty, cmds)]
    /\ pc' = "rdPct"
    /\ UNCHANGED <<cvars, capacity, state, dirty, cmds, rxAlive, ctx, dev,
                   rdCap, trace, ret>>

\* A refresh that stores the Percentage as soon as it is read.
ReadPercentage_storing ==
    /\ pc = "rdPct"
    /\ \E r \in Readings(dev.pct) :
         IF r.res = "ok"
           THEN /\ rdCap' = r.v
                /\ capacity' = r.v
                /\ pc' = "rdState"
                /\ UNCHANGED hist
           ELSE /\ UNCHANGED <<rdCap, capacity>>
                /\ pc' = "panicked"
                /\ hist' = [hist EXCEPT !.fail = "Percentage"]
    /\ UNCHANGED <<cvars, state, dirty, cmds, rxAlive, ctx, pending,
                   dev, trace, ret>>

\* battery.rs:182-186: get_upower_property(.., "Percentage").unwrap().get1().unwrap().0
ReadPercentage ==
    /\ pc = "rdPct"
    /\ \E r \in Readings(dev.pct) :
         IF r.res = "ok"
           THEN /\ rdCap' = r.v
                /\ pc' = "rdState"
                /\ UNCHANGED hist
           ELSE /\ UNCHANGED rdCap
                /\ pc' = "panicked"
                /\ hist' = [hist EXCEPT !.fail = "Percentage"]
    /\ UNCHANGED <<cvars, capacity, state, dirty, cmds, rxAlive, ctx, pending,
                   dev, trace, ret>>

\* A store that flips the flag.
toggle_dirty(d) == ~d

\* battery.rs:203: *self.dirty.lock().unwrap() = true
mark_dirty(d) == TRUE

\* Whether sender.send(Cmd::Draw) succeeds: battery.rs:204 unwraps it.
send_ok(alive) == alive

\* battery.rs:187-204: the State read and its unwraps, then the stores to
\* self.state and self.capacity, the dirty flag and the Draw command.
ReadStateAndStore ==
    /\ pc = "rdState"
    /\ \E r \in Readings(dev.state) :
         IF r.res = "ok"
           THEN /\ state' = wait_state(r.v)
                /\ capacity' = rdCap
                /\ dirty' = mark_dirty(dirty)
                /\ IF send_ok(rxAlive)
                     THEN /\ cmds' = cmds + 1
                          /\ hist' = [hist EXCEPT
                                        !.sent = @ + 1,
                                        !.last = [pct |-> rdCap, code |-> r.v],
                                        !.it = Snapshot(capacity', state',
                                                        dirty', cmds')]
                          /\ pc' = "iter"
                     ELSE /\ UNCHANGED cmds
                          /\ hist' = [hist EXCEPT !.fail = "send"]
                          /\ pc' = "panicked"
           ELSE /\ UNCHANGED <<state, capacity, dirty, cmds>>
                /\ hist' = [hist EXCEPT !.fail = "State"]
                /\ pc' = "panicked"
    /\ UNCHANGED <<cvars, rxAlive, ctx, pending, dev, rdCap, trace, ret>>

\* battery.rs:205-209: no message is left; the watch descriptor is pushed
\* and wait() returns.
WaitReturn ==
    /\ pc = "iter"
    /\ pending = 0
    /\ ctx' = Append(ctx, PollFd_new(WatchFd, "POLLIN"))
    /\ pc' = "waited"
    /\ UNCHANGED <<cvars, capacity, state, dirty, cmds, rxAlive, pending, dev,
                   rdCap, trace, hist, ret>>

\* An inc that moves the gauge by delta.
inc_adding(cap, delta) == cap + delta

\* battery.rs:233-235: inc, set and toggle have empty bodies; each gives the
\* capacity the leaf holds afterwards.
inc(cap, delta) == cap
set(cap, v) == cap
toggle(cap) == cap

\* Arguments of inc and set (f32, in hundredths).
Deltas == {-10, 10}
SetValues == {0, 100}

\* Another leaf of the tree adds its descriptor to the WaitContext, before or
\* after the battery leaf's turn.
OtherLeafWait ==
    /\ pc \in {"loop", "waited"}
    /\ Cardinality({i \in 1 .. Len(ctx) : ctx[i][1] = OtherFd}) < MaxOther
    /\ ctx' = Append(ctx, PollFd_new(OtherFd, "POLLIN"))
    /\ UNCHANGED <<cvars, pc, capacity, state, dirty, cmds, rxAlive, pending,
                   dev, rdCap, trace, hist, ret>>

\* The render loop, after the blocking wait: it takes the queued commands,
\* redraws the tree, clears the dirty flag and starts the next iteration with
\* an empty WaitContext.
Redraw ==
    /\ pc = "waited"
    /\ dirty' = FALSE
    /\ cmds' = IF rxAlive THEN 0 ELSE cmds
    /\ ctx' = <<>>
    /\ pc' = "loop"
    /\ hist' = NoHist
    /\ ret' = NoRet
    /\ UNCHANGED <<cvars, capacity, state, rxAlive, pending, dev, rdCap, trace>>

\* The bar renderer and the input handler call the leaf's other methods
\* between wait() and the redraw.
Call_name ==
    /\ pc = "waited"
    /\ ret' = [op |-> "name", v |-> name]
    /\ UNCHANGED <<cvars, pc, capacity, state, dirty, cmds, rxAlive, ctx,
                   pending, dev, rdCap, trace, hist>>

Call_value ==
    /\ pc = "waited"
    /\ ret' = [op |-> "value", v |-> value(capacity)]
    /\ UNCHANGED <<cvars, pc, capacity, state, dirty, cmds, rxAlive, ctx,
                   pending, dev, rdCap, trace, hist>>

Call_color ==
    /\ pc = "waited"
    /\ ret' = [op |-> "color", v |-> color(state, capacity)]
    /\ UNCHANGED <<cvars, pc, capacity, state, dirty, cmds, rxAlive, ctx,
                   pending, dev, rdCap, trace, hist>>

Call_inc ==
    /\ pc = "waited"
    /\ \E delta \in Deltas :
         /\ capacity' = inc(capacity, delta)
         /\ ret' = [op |-> "inc", v |-> delta]
    /\ UNCHANGED <<cvars, pc, state, dirty, cmds, rxAlive, ctx, pending, dev,
                   rdCap, trace, hist>>

Call_set ==
    /\ pc = "waited"
    /\ \E v \in SetValues :
         /\ capacity' = set(capacity, v)
         /\ ret' = [op |-> "set", v |-> v]
    /\ UNCHANGED <<cvars, pc, state, dirty, cmds, rxAlive, ctx, pending, dev,
                   rdCap, trace, hist>>

Call_toggle ==
    /\ pc = "waited"
    /\ capacity' = toggle(capacity)
    /\ ret' = [op |-> "toggle"]
    /\ UNCHANGED <<cvars, pc, state, dirty, cmds, rxAlive, ctx, pending, dev,
                   rdCap, trace, hist>>

NextBattery ==
    \/ NewCall
    \/ New
    \/ Handoff
    \/ DeviceChange
    \/ RxDrop
    \/ WaitCall
    \/ WaitItem
    \/ ReadPercentage
    \/ ReadStateAndStore
    \/ WaitReturn
    \/ OtherLeafWait
    \/ Redraw
    \/ Call_name
    \/ Call_value
    \/ Call_color
    \/ Call_inc
    \/ Call_set
    \/ Call_toggle

SpecBattery == InitBattery /\ [][NextBattery]_vars

---------------------------------------------------------------------------
(* Properties of the battery leaf, specification SpecBattery.              *)

\* The state each upstream State code stands for.
StateTable ==
    [code \in StateCodes |->
       IF code = 1 THEN "Charging"
       ELSE IF code \in {2, 6} THEN "Discharging"
       ELSE IF code = 3 THEN "Empty"
       ELSE IF code = 4 THEN "Full"
       ELSE IF code = 5 THEN "NotCharging"
       ELSE "Unknown"]

\* C5: while wait() drains the connection and when it has returned, it has
\* sent one Draw command for each message it found; after the k-th message
\* capacity and state are the values read for it and the dirty flag is set;
\* a wait() that found no message left the leaf, the flag and the channel as
\* they were.
C5_RefreshPerNotification ==
    pc \in {"iter", "waited"} =>
      /\ hist.sent = hist.found
      /\ cmds = hist.cmds0 + hist.found
      /\ hist.found > 0 =>
           /\ capacity = hist.last.pct
           /\ state = StateTable[hist.last.code]
           /\ dirty
      /\ hist.found = 0 =>
           /\ capacity = hist.it.capacity
           /\ state = hist.it.state
           /\ dirty = hist.it.dirty
           /\ cmds = hist.cmds0

\* C5 witness: a wait() that found two messages has returned, having sent two
\* commands, the leaf holding what the second refresh read.
C5_Witness ==
    /\ pc = "waited"
    /\ hist.found = 2
    /\ cmds = hist.cmds0 + 2
    /\ dirty
    /\ hist.last = [pct |-> 50, code |-> 1]
    /\ capacity = 50 /\ state = "Charging"

\* C6 as stated: a refresh whose Percentage or State read fails, or whose
\* Draw command cannot be sent, does not crash: wait() goes on and returns.
C6_WaitSurvivesFailures ==
    hist.fail \in {"Percentage", "State", "send"} => pc # "panicked"

\* C7: when the Percentage or the State read of a refresh fails, capacity,
\* state, the dirty flag and the channel are what they were before that
\* refresh, and so are value() and color(); no field is updated before both
\* reads have succeeded.
C7_ValuePersistence ==
    (pc \in {"rdPct", "rdState"}
       \/ (pc = "panicked" /\ hist.fail \in {"Percentage", "State"})) =>
      /\ capacity = hist.it.capacity
      /\ state = hist.it.state
      /\ dirty = hist.it.dirty
      /\ cmds = hist.it.cmds
      /\ value(capacity) = value(hist.it.capacity)
      /\ color(state, capacity) = color(hist.it.state, hist.it.capacity)

\* C7 witness: the Percentage read gave a new value, then the State read
\* failed, and the leaf still holds the old capacity.
C7_Witness ==
    /\ pc = "panicked"
    /\ hist.fail = "State"
    /\ rdCap # capacity
    /\ capacity = hist.it.capacity

\* C8: the dirty flag goes from true to false only in the render loop's
\* clear step; no step of the leaf writes false to it.
C8_DirtyMonotone ==
    [][(dirty /\ ~dirty') => (pc = "waited" /\ pc' = "loop")]_vars

\* C8 witness: the flag, already true, has been set by two refreshes of one
\* wait() and is true.
C8_Witness ==
    /\ pc = "iter"
    /\ hist.found = 2 /\ hist.sent = 2
    /\ dirty

\* C9: a wait() that has returned has appended one entry, the watch
\* descriptor with POLLIN, behind the entries that were there, which are
\* unchanged; until the drain is over nothing is appended.
C9_WaitRegistersDescriptor ==
    /\ pc \in {"iter", "rdPct", "rdState", "panicked"} => ctx = hist.ctx0
    /\ pc = "waited" =>
         /\ Len(ctx) > Len(hist.ctx0)
         /\ SubSeq(ctx, 1, Len(hist.ctx0)) = hist.ctx0
         /\ ctx[Len(hist.ctx0) + 1] = <<WatchFd, "POLLIN">>
         /\ Cardinality({i \in 1 .. Len(ctx) : ctx[i][1] = WatchFd}) = 1

\* C9 witness: wait() found a message, and returned with its descriptor
\* behind the one another leaf had registered.
C9_Witness ==
    /\ pc = "waited"
    /\ hist.found = 1
    /\ hist.ctx0 = <<<<OtherFd, "POLLIN">>>>
    /\ ctx = <<<<OtherFd, "POLLIN">>, <<WatchFd, "POLLIN">>>>

\* C10: Discharging or Unknown is white above 10 percent and amber at 10 and
\* below; Charging or Full is green; NotCharging or Empty is pink, whatever
\* the capacity; color() returns that color.
C10_ColorPolicy ==
    pc \notin {"off", "new", "failed"} =>
      LET c == color(state, capacity)
      IN  /\ (state \in {"Discharging", "Unknown"} /\ capacity > 10)
                => c = <<10, 10, 10, 10>>
          /\ (state \in {"Discharging", "Unknown"} /\ capacity <= 10)
                => c = <<10, 5, 0, 10>>
          /\ state \in {"Charging", "Full"} => c = <<5, 10, 5, 10>>
          /\ state \in {"NotCharging", "Empty"} => c = <<10, 5, 5, 10>>
          /\ (capacity = 5 /\ state = "Discharging") => c = Amber
          /\ (capacity = 50 /\ state = "Charging") => c = Green
          /\ ret.op = "color" => ret.v = c

\* C10 witness: at exactly 10 percent, Discharging, color() returned amber.
C10_Witness ==
    /\ pc = "waited"
    /\ capacity = 10 /\ state = "Discharging"
    /\ ret.op = "color" /\ ret.v = <<10, 5, 0, 10>>

---------------------------------------------------------------------------
(* C11  Gauge value range.                                                 *)

\* The leaf exists: from_device returned Ok.
LeafExists == pc \in {"loop", "iter", "rdPct", "rdState", "waited"}

\* C11: in every reachable state of a battery leaf, value() is the stored
\* capacity divided by 100 and lies in [0, 1], whatever Percentage the
\* service reported at construction or at a refresh.
C11_ValueInUnitRange ==
    LeafExists =>
        /\ value(capacity) = [num |-> capacity, den |-> 100]
        /\ 0 <= value(capacity).num
        /\ value(capacity).num <= value(capacity).den

---------------------------------------------------------------------------
(* C12  Naming defaults at construction.                                   *)

RECURSIVE NamesAsConfigured(_)
\* Every Backlight and Launcher of the runtime tree w holds the strings of
\* the node it was made for, an empty device or URL opener being replaced
\* by the default and nothing else being touched.
NamesAsConfigured(w) ==
    LET n == NodeAt(spec, w.node)
    IN  /\ w.kind = "Backlight" =>
              w.bar.inner.device =
                  (IF n.device = "" THEN "intel_backlight" ELSE n.device)
        /\ w.kind = "Launcher" =>
              /\ w.url_opener =
                     (IF n.url_opener = "" THEN "xdg_open " ELSE n.url_opener)
              /\ w.app_opener = n.app_opener
              /\ w.term_opener = n.term_opener
        /\ \A i \in 1 .. Len(Children(w)) : NamesAsConfigured(Children(w)[i])

\* C12: an empty Backlight device is replaced by "intel_backlight" and an
\* empty Launcher URL opener by the default opener command; a non-empty device
\* or URL opener, and the app and terminal openers even when empty, are
\* passed through unchanged.
C12_NamingDefaults ==
    (cpc = "built" /\ built.some) => NamesAsConfigured(built.w)

\* A layout was built that holds a Launcher made from three empty openers
\* next to a Backlight made from a named device.
C12_Witness ==
    /\ cpc = "built" /\ built.some
    /\ spec.kind \in LayoutKinds
    /\ Len(built.w.widgets) = 2
    /\ built.w.widgets[1].kind = "Launcher"
    /\ spec.widgets[1].url_opener = ""
    /\ spec.widgets[1].app_opener = ""
    /\ built.w.widgets[1].url_opener = "xdg_open "
    /\ built.w.widgets[2].kind = "Backlight"
    /\ built.w.widgets[2].bar.inner.device = "acpi_video0"

---------------------------------------------------------------------------
(* C13  One refresh stores the device's values of one instant.             *)

\* C13: the (capacity, state) pair a refresh stored is the (Percentage,
\* State) pair the device had at one single instant: it is one of the pairs
\* the device reports, never the Percentage of one and the State of another.
C13_PairOfOneInstant ==
    hist.sent > 0 =>
        [pct |-> capacity, state |-> hist.last.code] \in DevReadings

---------------------------------------------------------------------------
(* C14  The battery probe at construction.                                 *)

\* The steps of the probe in the order the claim gives them.
ProbeSteps ==
    <<"get_private", "add_match", "Type", "Percentage", "State", "watch_fds">>

\* Whether step i of the probe succeeds on bus b.
StepSucceeds(b, i) ==
    CASE i = 1 -> b.con
      [] i = 2 -> b.add_match
      [] i = 3 -> b.Type.res = "ok" /\ b.Type.v = 2
      [] i = 4 -> b.Percentage.res = "ok"
      [] i = 5 -> b.State.res = "ok"
      [] i = 6 -> b.watch_fds = 1

\* The first step that fails on bus b, 0 when none does.
FirstFailure(b) ==
    LET failing == {i \in 1 .. Len(ProbeSteps) : ~StepSucceeds(b, i)}
    IN  IF failing = {} THEN 0
        ELSE CHOOSE i \in failing : \A j \in failing : i <= j

\* C14: from_device succeeds if and only if the bus opens, the match rule is
\* added, Type is readable and 2, Percentage is readable, State is readable
\* and there is exactly one watch descriptor; the steps run in this order, the
\* first failing one returns the error and no later step is performed, and the
\* match rule is added before Percentage and State are read.
C14_ProbeOrder ==
    ret.op = "new" =>
        LET f == FirstFailure(ret.bus)
        IN  /\ (cpc \in {"made", "sent"}) <=> (f = 0)
            /\ (cpc = "failed") <=> (f # 0)
            /\ trace = SubSeq(ProbeSteps, 1, IF f = 0 THEN Len(ProbeSteps) ELSE f)
            /\ \A j \in DOMAIN trace :
                  trace[j] \in {"Percentage", "State"} =>
                      \E i \in 1 .. j - 1 : trace[i] = "add_match"

\* from_device met a line-power device on a bus that also has two watch
\* descriptors: it returned the error after reading Type.
C14_Witness ==
    /\ ret.op = "new"
    /\ cpc = "failed"
    /\ ret.bus.con /\ ret.bus.add_match
    /\ ret.bus.Type = Reading("ok", 1)
    /\ ret.bus.watch_fds = 2
    /\ trace = <<"get_private", "add_match", "Type">>

---------------------------------------------------------------------------
(* C15  The State-code mapping, at construction and at refresh.            *)

\* On every code the table of from_device and the table of wait are the
\* expected one, and the colors that follow are the same.
TablesAgree ==
    \A code \in StateCodes :
        /\ from_device_state(code) = StateTable[code]
        /\ wait_state(code) = from_device_state(code)
        /\ \A cap \in PctValues :
              color(wait_state(code), cap) = color(from_device_state(code), cap)

\* C15: codes 1 .. 6 map to Charging, Discharging, Empty, Full, NotCharging,
\* Discharging and every other code to Unknown; construction and refresh
\* apply the same mapping, so the state stored by either for a code, and the
\* color that follows from it, is the same.
C15_StateMapping ==
    /\ TablesAgree
    /\ (ret.op = "new" /\ cpc \in {"made", "sent"}) =>
          state = StateTable[ret.bus.State.v]
    /\ (hist.sent > 0 /\ hist.fail # "send") =>
          state = StateTable[hist.last.code]

\* A leaf constructed from a device reporting code 6 was refreshed from the
\* same code: Discharging both times.
C15_Witness ==
    /\ Len(trace) = 6
    /\ hist.sent > 0
    /\ hist.last.code = 6
    /\ hist.it.state = "Discharging"
    /\ state = "Discharging"

---------------------------------------------------------------------------
(* C16  Only wait() changes a battery leaf.                                *)

AccessorOps == {"name", "value", "color", "inc", "set", "toggle"}

\* The step is a call of one of the six accessors on the constructed leaf:
\* the render thread stays after wait(), and neither the device, the
\* receiver nor another leaf acted.
AccessorStep ==
    /\ pc = "waited" /\ pc' = "waited"
    /\ ret'.op \in AccessorOps
    /\ pending' = pending /\ dev' = dev /\ rxAlive' = rxAlive
    /\ Len(ctx') = Len(ctx)

\* C16: inc, set and toggle are no-ops and name, value and color are pure
\* reads: a call of any of them, with any argument, leaves capacity, state,
\* the dirty flag, the command channel and the wait context as they were,
\* and name, value and color return what the leaf holds.
C16_AccessorsChangeNothing ==
    [][AccessorStep =>
          /\ UNCHANGED <<capacity, state, dirty, cmds, ctx>>
          /\ ret'.op = "name" => ret'.v = "battery"
          /\ ret'.op = "value" => ret'.v = [num |-> capacity, den |-> 100]
          /\ ret'.op = "color" => ret'.v = color(state, capacity)]_vars

\* inc(10) has returned on a leaf that holds 50 percent, Charging, with the
\* dirty flag set and a command in the channel.
C16_Witness ==
    /\ pc = "waited"
    /\ ret.op = "inc" /\ ret.v = 10
    /\ capacity = 50 /\ state = "Charging"
    /\ dirty /\ cmds > 0

---------------------------------------------------------------------------
(* C17  Cross-thread handoff of the battery leaf.                          *)

\* The threads that are inside a call that uses the bus connection: the
\* construction thread inside from_device (battery.rs:76-144), the render
\* thread inside wait() until its loop over watch_handle ends (177-206).
ConUsers ==
    (IF cpc = "probing" THEN {"construction"} ELSE {})
    \cup (IF pc \in {"iter", "rdPct", "rdState"} THEN {"render"} ELSE {})

\* The thread that holds the leaf, and with it the connection.
LeafHolder ==
    IF cpc \in {"probing", "made"} THEN {"construction"}
    ELSE IF cpc = "sent" THEN {"render"}
    ELSE {}

ExclusiveUse ==
    /\ Cardinality(ConUsers) <= 1
    /\ ConUsers \subseteq LeafHolder
    /\ "construction" \in ConUsers => pc = "new"
    /\ "render" \in ConUsers => cpc = "sent"

---------------------------------------------------------------------------
(* C18  When construct() returns no widget.                                *)

RECURSIVE FailingChain(_, _)
\* The node of spec at position n heads a chain of zero or more Margin or
\* Fixed nodes that ends in a gauge leaf whose probe fails.
FailingChain(t, n) ==
    LET k == NodeAt(t, n).kind
    IN  \/ k \in GaugeKinds /\ ~ProbeOk(t, probe, n)
        \/ k \in WrapperKinds /\ FailingChain(t, n \o <<1>>)

\* The positions of spec that have a widget in the built tree.
BuiltNodes == {e[1] : e \in BuiltIndex}

\* C18: construct() returns no widget exactly when the specification is a
\* chain of zero or more Margin/Fixed wrappers over a gauge leaf whose probe
\* fails; a layout or a static leaf at the root always constructs, and a
\* Margin or Fixed node constructs if and only if its child does.
C18_NoneExactlyForFailingChain ==
    cpc = "built" =>
        /\ ~built.some <=> FailingChain(spec, <<>>)
        /\ spec.kind \in LayoutKinds \cup StaticKinds => built.some
        /\ \A n \in Nodes(spec, <<>>) :
              NodeAt(spec, n).kind \in WrapperKinds =>
                  (n \in BuiltNodes <=> (n \o <<1>>) \in BuiltNodes)

\* Fixed over Margin over a gauge whose probe failed constructed nothing.
C18_Witness ==
    /\ cpc = "built"
    /\ spec.kind = "Fixed"
    /\ spec.widget.kind = "Margin"
    /\ spec.widget.widget.kind \in GaugeKinds
    /\ ~ProbeOk(spec, probe, <<1, 1>>)
    /\ built = None

---------------------------------------------------------------------------
(* C19  The default configuration always constructs.                       *)

RECURSIVE StaticLeaves(_)
RECURSIVE StaticLeavesOf(_)
\* The kinds of the static leaves of the runtime tree w, in tree order.
StaticLeaves(w) ==
    IF w.kind \in StaticKinds THEN <<w.kind>> ELSE StaticLeavesOf(Children(w))
StaticLeavesOf(ws) ==
    IF ws = <<>> THEN <<>>
    ELSE StaticLeaves(Head(ws)) \o StaticLeavesOf(Tail(ws))

\* The position of the gauge column in the default tree.
GaugeColumn == <<1, 1, 2>>

\* The widget built for the gauge column of the default tree.
BuiltGaugeColumn == built.w.widget.widgets[1].widgets[2]

\* C19: whatever the battery, backlight and audio probes meet, construct()
\* on the default Config's tree returns a widget that holds Date, Clock,
\* Calendar and Launcher in this order; its gauge column is a vertical
\* layout of the gauges whose probe succeeded, an empty one when all fail.
C19_DefaultAlwaysConstructs ==
    (cpc = "built" /\ spec \in {DefaultWidget(TRUE), DefaultWidget(FALSE)}) =>
        /\ built.some
        /\ StaticLeaves(built.w) = <<"Date", "Clock", "Calendar", "Launcher">>
        /\ BuiltGaugeColumn.kind = "VerticalLayout"
        /\ BuiltGaugeColumn.node = GaugeColumn
        /\ GaugeSurvivors = {} => BuiltGaugeColumn.widgets = <<>>
        /\ Len(BuiltGaugeColumn.widgets) = Cardinality(GaugeSurvivors)

\* The default tree with the audio gauge was constructed with all three
\* probes failing: the gauge column is there and empty.
C19_Witness ==
    /\ cpc = "built"
    /\ spec = DefaultWidget(TRUE)
    /\ GaugeSurvivors = {}
    /\ built.some
    /\ BuiltGaugeColumn.widgets = <<>>
    /\ Len(built.w.widget.widgets) = 3

====
